---- MODULE Spec2Model ----
(***************************************************************************)
(* Model of mapa.py: address normalisation, candidate building, the        *)
(* two-provider geocoding resolver, the geocache and the failure log.      *)
(*                                                                         *)
(* A Python str is a sequence of one-character strings.  Coordinates are   *)
(* integers in thousandths of a degree.  A cell of the cache table is a    *)
(* record [t, v]: t = "num" for the decimal text of v, "empty" for "".     *)
(***************************************************************************)
EXTENDS Integers, Sequences, FiniteSets, TLC

\* ------------------------------------------------------------------------
\* Character classes of the regular expressions
\* ------------------------------------------------------------------------
Ws == {" ", "\t"}
Digits == {"0", "1", "2", "3", "4", "5", "6", "7", "8", "9"}
AZ == {"A", "B", "C", "D", "E", "F", "G", "H", "I", "J", "K", "L", "M",
       "N", "O", "P", "Q", "R", "S", "T", "U", "V", "W", "X", "Y", "Z"}
LowerSeq == <<"a", "b", "c", "d", "e", "f", "g", "h", "i", "j", "k", "l", "m",
              "n", "o", "p", "q", "r", "s", "t", "u", "v", "w", "x", "y", "z",
              "ã", "á", "é", "ç">>
UpperSeq == <<"A", "B", "C", "D", "E", "F", "G", "H", "I", "J", "K", "L", "M",
              "N", "O", "P", "Q", "R", "S", "T", "U", "V", "W", "X", "Y", "Z",
              "Ã", "Á", "É", "Ç">>
WordChars == {LowerSeq[i] : i \in 1..Len(LowerSeq)} \cup
             {UpperSeq[i] : i \in 1..Len(UpperSeq)} \cup Digits \cup {"_"}

\* str.upper()
upper_char(c) ==
    IF \E i \in 1..Len(LowerSeq) : LowerSeq[i] = c
    THEN UpperSeq[CHOOSE i \in 1..Len(LowerSeq) : LowerSeq[i] = c]
    ELSE c
upper(t) == [i \in 1..Len(t) |-> upper_char(t[i])]

RECURSIVE lstrip(_, _)
lstrip(t, cs) == IF t # <<>> /\ Head(t) \in cs THEN lstrip(Tail(t), cs) ELSE t
RECURSIVE rstrip(_, _)
rstrip(t, cs) ==
    IF t # <<>> /\ t[Len(t)] \in cs THEN rstrip(SubSeq(t, 1, Len(t) - 1), cs) ELSE t
\* str.strip() and str.strip(chars)
strip_chars(t, cs) == rstrip(lstrip(t, cs), cs)
strip(t) == strip_chars(t, Ws)

\* t[i:].startswith(lit), 1-based
starts_at(t, i, lit) ==
    i >= 1 /\ i + Len(lit) - 1 <= Len(t) /\ SubSeq(t, i, i + Len(lit) - 1) = lit
\* needle in hay
contains(hay, needle) == \E i \in 1..(Len(hay) + 1) : starts_at(hay, i, needle)
\* hay.endswith(suffix)
endswith(hay, suffix) ==
    Len(suffix) <= Len(hay) /\ starts_at(hay, Len(hay) - Len(suffix) + 1, suffix)
char_in(t, i, cs) == i >= 1 /\ i <= Len(t) /\ t[i] \in cs
\* greedy cs* from position i: the first position not in cs
skip_in(t, i, cs) ==
    IF i > Len(t) THEN i
    ELSE CHOOSE j \in i..(Len(t) + 1) :
             /\ \A k \in i..(j - 1) : t[k] \in cs
             /\ ~char_in(t, j, cs)
skip_ws(t, i) == skip_in(t, i, Ws)
\* \b between positions i-1 and i
word_boundary(t, i) == char_in(t, i - 1, WordChars) # char_in(t, i, WordChars)

\* re.sub over non-empty matches: M[i] is the position just after the match
\* that starts at i (0: no match at i), R[i] the text that replaces it.  The
\* scan goes from one leftmost match to the next, copying the text between.
RECURSIVE re_sub_from(_, _, _, _)
re_sub_from(t, M, R, i) ==
    IF \A j \in i..Len(t) : M[j] = 0 THEN SubSeq(t, i, Len(t))
    ELSE LET j == CHOOSE j \in i..Len(t) : M[j] > 0 /\ \A k \in i..(j - 1) : M[k] = 0
         IN  SubSeq(t, i, j - 1) \o R[j] \o re_sub_from(t, M, R, M[j])
re_sub(t, M, R) == re_sub_from(t, M, R, 1)

\* ", ".join(parts)
RECURSIVE join(_, _)
join(sep, parts) ==
    IF parts = <<>> THEN <<>>
    ELSE IF Len(parts) = 1 THEN parts[1]
    ELSE parts[1] \o sep \o join(sep, Tail(parts))

\* Straight-line code: the value a of one statement is computed before the
\* statements b that follow it.
after(a, b) == CASE Len(a) >= 0 -> b

\* None of Optional[str]
None == <<"<None>">>
\* truth value of an Optional[str]
truthy(x) == x # None /\ x # <<>>

\* ------------------------------------------------------------------------
\* normalize_for_geocode
\* ------------------------------------------------------------------------
_PREFIXES == <<
    <<"R","U","A">>, <<"A","V","E","N","I","D","A">>, <<"A","V">>,
    <<"A","L","A","M","E","D","A">>, <<"T","R","A","V","E","S","S","A">>,
    <<"E","S","T","R","A","D","A">>, <<"R","O","D","O","V","I","A">>,
    <<"R","O","D">>, <<"P","R","A","Ç","A">>, <<"P","R","A","C","A">>,
    <<"L","A","R","G","O">>, <<"V","I","A">>, <<"V","I","E","L","A">>,
    <<"S","E","R","V","I","D","A","O">>, <<"S","E","R","V","I","D","Ã","O">>,
    <<"P","A","R","Q","U","E">> >>
_COMPLEMENTS == <<
    <<"S","A","L","A">>, <<"S","L">>, <<"T","E","R","R","E","O">>,
    <<"T","É","R","R","E","O">>, <<"F","U","N","D","O","S">>,
    <<"L","O","J","A">>, <<"A","P","T","O">>, <<"A","P","T">>, <<"A","P">>,
    <<"C","J">>, <<"C","O","N","J">>, <<"S","O","B","R","A","D","O">>,
    <<"G","A","L","P","A","O">>, <<"G","A","L","P","Ã","O">>,
    <<"B","O","X">>, <<"B","L","O","C","O">>, <<"B","L">>,
    <<"A","N","D","A","R">> >>

\* re.sub(r"\([^)]*\)", "", t)
paren_end(t, i) ==
    IF char_in(t, i, {"("}) /\ \E j \in (i + 1)..Len(t) : t[j] = ")"
    THEN 1 + (CHOOSE j \in (i + 1)..Len(t) :
                 t[j] = ")" /\ \A k \in (i + 1)..(j - 1) : t[k] # ")")
    ELSE 0
_strip_parentheses(t) ==
    re_sub(t, [i \in 1..Len(t) |-> paren_end(t, i)], [i \in 1..Len(t) |-> <<>>])

\* re.sub(rf'\b{p}(?=[A-Z0-9])', f'{p} ', t)
split_prefix(t, p) ==
    re_sub(t,
           [i \in 1..Len(t) |->
               IF word_boundary(t, i) /\ starts_at(t, i, p)
                  /\ char_in(t, i + Len(p), AZ \cup Digits)
               THEN i + Len(p) ELSE 0],
           [i \in 1..Len(t) |-> p \o <<" ">>])
\* for p in _PREFIXES: t = re.sub(...)
RECURSIVE split_prefixes(_, _)
split_prefixes(t, n) ==
    IF n > Len(_PREFIXES) THEN t
    ELSE LET u == split_prefix(t, _PREFIXES[n])
         IN  after(u, split_prefixes(u, n + 1))

\* re.sub(r'\bKM\s*([0-9]+[,\.]?[0-9]*)', r'KM \1', t)
km_num_end(t, j) ==
    LET k == skip_in(t, j, Digits)
        k2 == IF char_in(t, k, {",", "."}) THEN k + 1 ELSE k
    IN  IF k > j THEN skip_in(t, k2, Digits) ELSE 0
km_end(t, i) ==
    IF word_boundary(t, i) /\ starts_at(t, i, <<"K", "M">>)
    THEN km_num_end(t, skip_ws(t, i + 2)) ELSE 0
normalize_km(t) ==
    re_sub(t,
           [i \in 1..Len(t) |-> km_end(t, i)],
           [i \in 1..Len(t) |->
               IF km_end(t, i) > 0
               THEN <<"K", "M", " ">> \o SubSeq(t, skip_ws(t, i + 2), km_end(t, i) - 1)
               ELSE <<>>])

\* re.sub(r'(\d),(\d)', r'\1.\2', t)
decimal_comma(t) ==
    re_sub(t,
           [i \in 1..Len(t) |->
               IF char_in(t, i, Digits) /\ char_in(t, i + 1, {","})
                  /\ char_in(t, i + 2, Digits)
               THEN i + 3 ELSE 0],
           [i \in 1..Len(t) |->
               IF i + 2 <= Len(t) THEN <<t[i], ".", t[i + 2]>> ELSE <<>>])

\* re.sub(r'\s*-\s*\d{2}\s*/\s*[A-Z]{2}\s*-?', ' ', t)
uf_fragment_end(t, i) ==
    LET a == skip_ws(t, i)
        b == skip_ws(t, a + 1)
        c == skip_ws(t, b + 2)
        d == skip_ws(t, c + 1)
        e == skip_ws(t, d + 2)
    IN  IF /\ char_in(t, a, {"-"})
           /\ char_in(t, b, Digits) /\ char_in(t, b + 1, Digits)
           /\ char_in(t, c, {"/"})
           /\ char_in(t, d, AZ) /\ char_in(t, d + 1, AZ)
        THEN (IF char_in(t, e, {"-"}) THEN e + 1 ELSE e)
        ELSE 0
remove_uf_fragment(t) ==
    re_sub(t, [i \in 1..Len(t) |-> uf_fragment_end(t, i)],
              [i \in 1..Len(t) |-> <<" ">>])

\* re.search(r'CEP\s*([0-9]{5}-?[0-9]{3})', t): end of the match at i, or 0
cep_digits_end(t, j) ==
    LET k == IF char_in(t, j + 5, {"-"}) THEN j + 6 ELSE j + 5
    IN  IF (\A n \in 0..4 : char_in(t, j + n, Digits))
           /\ (\A n \in 0..2 : char_in(t, k + n, Digits))
        THEN k + 3 ELSE 0
cep_end(t, i) ==
    IF starts_at(t, i, <<"C", "E", "P">>)
    THEN cep_digits_end(t, skip_ws(t, i + 3)) ELSE 0
cep_found(t) == \E i \in 1..Len(t) : cep_end(t, i) > 0
cep_start_last(t) ==
    CHOOSE i \in 1..Len(t) :
        cep_end(t, i) > 0 /\ \A k \in (i + 1)..Len(t) : cep_end(t, k) = 0
cep_start(t) ==
    CHOOSE i \in 1..Len(t) :
        cep_end(t, i) > 0 /\ \A k \in 1..(i - 1) : cep_end(t, k) = 0
\* mcep.group(1)
cep_group(t) == SubSeq(t, skip_ws(t, cep_start(t) + 3), cep_end(t, cep_start(t)) - 1)
\* (t[:mcep.start()] + t[mcep.end():]).strip()
cep_removed(t) ==
    strip(SubSeq(t, 1, cep_start(t) - 1) \o
          SubSeq(t, cep_end(t, cep_start(t)), Len(t)))

\* re.sub(rf'\s-\s{w}\b.*$', '', t)
complement_at(t, i, w) ==
    /\ char_in(t, i, Ws) /\ char_in(t, i + 1, {"-"}) /\ char_in(t, i + 2, Ws)
    /\ starts_at(t, i + 3, w)
    /\ word_boundary(t, i + 3 + Len(w))
remove_complement(t, w) ==
    IF \E i \in 1..Len(t) : complement_at(t, i, w)
    THEN SubSeq(t, 1, (CHOOSE i \in 1..Len(t) :
                          complement_at(t, i, w)
                          /\ \A k \in 1..(i - 1) : ~complement_at(t, k, w)) - 1)
    ELSE t
RECURSIVE remove_complements(_, _)
remove_complements(t, n) ==
    IF n > Len(_COMPLEMENTS) THEN t
    ELSE LET u == remove_complement(t, _COMPLEMENTS[n])
         IN  after(u, remove_complements(u, n + 1))

\* t.replace(' - ', ', ')
replace_dash(t) ==
    re_sub(t,
           [i \in 1..Len(t) |-> IF starts_at(t, i, <<" ", "-", " ">>) THEN i + 3 ELSE 0],
           [i \in 1..Len(t) |-> <<",", " ">>])
\* re.sub(r'\s*,\s*', ', ', t)
normalize_commas(t) ==
    re_sub(t,
           [i \in 1..Len(t) |->
               IF char_in(t, skip_ws(t, i), {","})
               THEN skip_ws(t, skip_ws(t, i) + 1) ELSE 0],
           [i \in 1..Len(t) |-> <<",", " ">>])
\* re.sub(r'\s{2,}', ' ', t)
collapse_spaces(t) ==
    re_sub(t,
           [i \in 1..Len(t) |-> IF skip_ws(t, i) - i >= 2 THEN skip_ws(t, i) ELSE 0],
           [i \in 1..Len(t) |-> <<" ">>])
normalize_separators(t) ==
    LET t1 == replace_dash(t)
        t2 == normalize_commas(t1)
        t3 == collapse_spaces(t2)
    IN  after(t1, after(t2, after(t3, strip_chars(t3, {" ", ",", ";", "-"}))))

\* re.match(r'^(?P<street>[^,]+?)(?:,\s*(?P<number>[^,]+))?(?:,\s*(?P<bairro>[^,]+))?$', t)
comma_positions(t) == {i \in 1..Len(t) : t[i] = ","}
\* the k-th comma-delimited segment of t (k = 0, 1, ...)
segment(t, k) ==
    LET cs == comma_positions(t)
        before(i) == Cardinality({c \in cs : c < i})
        idx == {i \in 1..Len(t) : t[i] # "," /\ before(i) = k}
    IN  IF idx = {} THEN <<>>
        ELSE SubSeq(t, CHOOSE i \in idx : \A j \in idx : i <= j,
                       CHOOSE i \in idx : \A j \in idx : i >= j)
split_matches(t) ==
    /\ Cardinality(comma_positions(t)) <= 2
    /\ \A k \in 0..Cardinality(comma_positions(t)) : segment(t, k) # <<>>
\* number.isdigit()
isdigit(x) == x # <<>> /\ \A i \in 1..Len(x) : x[i] \in Digits
\* re.search(r'\bKM\s*\d', t)
has_km_marker(t) ==
    \E i \in 1..Len(t) :
        /\ word_boundary(t, i) /\ starts_at(t, i, <<"K", "M">>)
        /\ char_in(t, skip_ws(t, i + 2), Digits)
\* number and (number.isdigit() or "S/N" in number or "S\\N" in number)
expects_house_of(number) ==
    /\ number # <<>>
    /\ \/ isdigit(number)
       \/ contains(number, <<"S", "/", "N">>)
       \/ contains(number, <<"S", "\\", "N">>)

\* the working string t of normalize_for_geocode when the CEP is searched
before_cep(endereco_raw) ==
    LET t0 == strip(upper(endereco_raw))
        t1 == _strip_parentheses(t0)
        t2 == split_prefixes(t1, 1)
        t3 == normalize_km(t2)
        t4 == decimal_comma(t3)
    IN  after(t0, after(t1, after(t2, after(t3, after(t4, remove_uf_fragment(t4))))))
\* the working string t after the CEP is removed and the separators normalised
after_cep(t) ==
    LET t1 == IF cep_found(t) THEN cep_removed(t) ELSE t
        t2 == remove_complements(t1, 1)
    IN  after(t1, after(t2, normalize_separators(t2)))

\* the dict returned by normalize_for_geocode
normalize_result(t, cep, street, number, bairro) ==
    LET base_parts == <<strip(street)>> \o (IF number # <<>> THEN <<strip(number)>> ELSE <<>>)
                                        \o (IF bairro # <<>> THEN <<strip(bairro)>> ELSE <<>>)
    IN  [base |-> join(<<",", " ">>, SelectSeq(base_parts, LAMBDA p : p # <<>>)),
         cep |-> cep,
         street |-> strip(street), number |-> number, neighbourhood |-> bairro,
         has_km |-> has_km_marker(t),
         expects_house |-> expects_house_of(number)]
\* street, number, bairro of the match m, or the whole of t as the street
normalize_groups(t, cep, m) ==
    normalize_result(t, cep,
                     IF m THEN segment(t, 0) ELSE t,
                     IF m THEN strip(segment(t, 1)) ELSE <<>>,
                     IF m THEN strip(segment(t, 2)) ELSE <<>>)
\* from the removal of the CEP on
normalize_after_cep(t, cep) == after(t, normalize_groups(t, cep, split_matches(t)))
\* from the search of the CEP on
normalize_from_cep(t0) ==
    after(t0, normalize_after_cep(after_cep(t0),
                                  IF cep_found(t0) THEN cep_group(t0) ELSE None))
normalize_for_geocode(endereco_raw) ==
    IF endereco_raw = <<>>
    THEN [base |-> <<>>, cep |-> None, street |-> <<>>, number |-> <<>>,
          neighbourhood |-> <<>>, has_km |-> FALSE, expects_house |-> FALSE]
    ELSE normalize_from_cep(before_cep(endereco_raw))

\* ------------------------------------------------------------------------
\* build_candidates
\* ------------------------------------------------------------------------
\* a structured query (dict); a key the dict does not have is <<>>
dict_query(street, postalcode, cidade, uf, country) ==
    [kind |-> "dict", street |-> street, postalcode |-> postalcode,
     city |-> cidade, state |-> uf, country |-> country, text |-> <<>>]
\* a free-text query (str)
str_query(text) ==
    [kind |-> "str", street |-> <<>>, postalcode |-> <<>>,
     city |-> <<>>, state |-> <<>>, country |-> <<>>, text |-> text]
\* json.dumps(q, sort_keys=True) of a dict, str(q) of a str
dedup_key(q) ==
    IF q.kind = "dict"
    THEN <<"{", q.city, q.country, q.postalcode, q.state, q.street, "}">>
    ELSE <<q.text>>
\* the de-dup loop: the first candidate of every key, in order
dedup_nothing(cands) == cands
dedup_keep_first(cands) ==
    LET keep == {i \in 1..Len(cands) :
                    \A j \in 1..(i - 1) : dedup_key(cands[j]) # dedup_key(cands[i])}
        nth(n) == CHOOSE i \in keep : Cardinality({j \in keep : j < i}) = n - 1
    IN  [n \in 1..Cardinality(keep) |-> cands[nth(n)]]
candidates_of(n, cidade, uf, country) ==
    LET sep == <<",", " ">>
        street_only == n.street \o (IF n.number # <<>> THEN sep \o n.number ELSE <<>>)
        cands ==
            (IF n.base # <<>> /\ truthy(n.cep)
             THEN <<dict_query(n.base, n.cep, cidade, uf, country)>> ELSE <<>>)
            \o (IF n.base # <<>>
                THEN <<dict_query(n.base, <<>>, cidade, uf, country)>> ELSE <<>>)
            \o (IF n.street # <<>>
                THEN <<dict_query(street_only, <<>>, cidade, uf, country)>> ELSE <<>>)
            \o (IF truthy(n.cep)
                THEN <<dict_query(<<>>, n.cep, cidade, uf, country)>> ELSE <<>>)
            \o (IF n.base # <<>>
                THEN <<str_query(n.base \o sep \o cidade \o sep \o uf \o sep \o country)>>
                ELSE <<>>)
    IN  dedup_keep_first(cands)
\* return uniq, n
candidates_and_meta(n, cidade, uf, country) ==
    CASE n.base = n.base -> [cands |-> candidates_of(n, cidade, uf, country), meta |-> n]
build_candidates(endereco_raw, cidade, uf, country) ==
    candidates_and_meta(normalize_for_geocode(endereco_raw), cidade, uf, country)
\* q_str of the ArcGIS loop: the string itself, or the dict values joined
arcgis_query(q) ==
    IF q.kind = "str" THEN q.text
    ELSE IF q.street = <<>>
    THEN join(<<",", " ">>, <<q.postalcode, q.city, q.state, q.country>>)
    ELSE join(<<",", " ">>,
              SelectSeq(<<q.street, q.city, q.state, q.country, q.postalcode>>,
                        LAMBDA v : v # <<>>))

\* re.search(r',\s*\d|S/?N\b|KM\s*\d', q.upper())
query_expects_precision(q) ==
    LET u == upper(q)
    IN  \E i \in 1..Len(u) :
            \/ u[i] = "," /\ char_in(u, skip_ws(u, i + 1), Digits)
            \/ u[i] = "S" /\ char_in(u, i + 1, {"/"}) /\ char_in(u, i + 2, {"N"})
                          /\ word_boundary(u, i + 3)
            \/ u[i] = "S" /\ char_in(u, i + 1, {"N"}) /\ word_boundary(u, i + 2)
            \/ starts_at(u, i, <<"K", "M">>) /\ char_in(u, skip_ws(u, i + 2), Digits)

\* ------------------------------------------------------------------------
\* Hit validation
\* ------------------------------------------------------------------------
\* str.lower()
lower_char(c) ==
    IF \E i \in 1..Len(UpperSeq) : UpperSeq[i] = c
    THEN LowerSeq[CHOOSE i \in 1..Len(UpperSeq) : UpperSeq[i] = c]
    ELSE c
lower(t) == [i \in 1..Len(t) |-> lower_char(t[i])]

\* the bbox None of fetch_city_bbox and point_in_bbox
NoBBox == [west |-> 0, south |-> 0, east |-> 0, north |-> 0, none |-> TRUE]
\* the centroid None of fetch_city_bbox
NoCentroid == [lat |-> 0, lon |-> 0, none |-> TRUE]

\* a faulty point_in_bbox: the longitude is not compared
point_in_bbox_latitude_only(lat, lon, bbox) ==
    IF bbox.none THEN TRUE ELSE bbox.south <= lat /\ lat <= bbox.north
point_in_bbox(lat, lon, bbox) ==
    IF bbox.none THEN TRUE
    ELSE (bbox.south <= lat /\ lat <= bbox.north) /\ (bbox.west <= lon /\ lon <= bbox.east)

\* a or b of two str values
or_else(a, b) == IF a # <<>> THEN a ELSE b
_addr_city_like(addr) ==
    or_else(addr.city, or_else(addr.town, or_else(addr.municipality, addr.village)))

\* a faulty check: only boundaries are turned down
is_boundary_only(raw) ==
    /\ raw.class = <<"b","o","u","n","d","a","r","y">>
    /\ raw.type \in {<<"a","d","m","i","n","i","s","t","r","a","t","i","v","e">>,
                     <<"c","i","t","y">>, <<"t","o","w","n">>,
                     <<"m","u","n","i","c","i","p","a","l","i","t","y">>}
is_boundary_or_place_city(raw) ==
    \/ /\ raw.class = <<"b","o","u","n","d","a","r","y">>
       /\ raw.type \in {<<"a","d","m","i","n","i","s","t","r","a","t","i","v","e">>,
                        <<"c","i","t","y">>, <<"t","o","w","n">>,
                        <<"m","u","n","i","c","i","p","a","l","i","t","y">>}
    \/ /\ raw.class = <<"p","l","a","c","e">>
       /\ raw.type \in {<<"c","i","t","y">>, <<"t","o","w","n">>,
                        <<"v","i","l","l","a","g","e">>, <<"h","a","m","l","e","t">>,
                        <<"m","u","n","i","c","i","p","a","l","i","t","y">>}

\* a faulty validator: a matching city or a matching state is enough
is_valid_nominatim_either(loc, city_expect, uf_expect, bbox, expects_house) ==
    LET raw == loc.raw
        addr == raw.address
        city_hit == _addr_city_like(addr)
        state_code == upper(addr.state_code)
        state == upper(addr.state)
        ok_city == contains(upper(city_hit), upper(city_expect))
        ok_uf == (upper(uf_expect) = state_code) \/ contains(state, upper(uf_expect))
        house_num == strip(addr.house_number)
        ty == lower(raw.type)
    IN  IF is_boundary_or_place_city(raw) THEN FALSE
        ELSE IF lower(addr.country_code) # <<"b","r">> THEN FALSE
        ELSE IF ~(ok_city \/ ok_uf) THEN FALSE
        ELSE IF ~point_in_bbox(loc.latitude, loc.longitude, bbox) THEN FALSE
        ELSE IF expects_house /\ house_num = <<>>
                /\ ty \notin {<<"h","o","u","s","e">>, <<"b","u","i","l","d","i","n","g">>,
                              <<"r","e","s","i","d","e","n","t","i","a","l">>}
             THEN FALSE
        ELSE TRUE

\* loc: [raw |-> [class, type, address |-> [...]], latitude, longitude]
is_valid_nominatim(loc, city_expect, uf_expect, bbox, expects_house) ==
    LET raw == loc.raw
        addr == raw.address
        city_hit == _addr_city_like(addr)
        state_code == upper(addr.state_code)
        state == upper(addr.state)
        ok_city == contains(upper(city_hit), upper(city_expect))
        ok_uf == (upper(uf_expect) = state_code) \/ contains(state, upper(uf_expect))
        house_num == strip(addr.house_number)
        ty == lower(raw.type)
    IN  IF is_boundary_or_place_city(raw) THEN FALSE
        ELSE IF lower(addr.country_code) # <<"b","r">> THEN FALSE
        ELSE IF ~(ok_city /\ ok_uf) THEN FALSE
        ELSE IF ~point_in_bbox(loc.latitude, loc.longitude, bbox) THEN FALSE
        ELSE IF expects_house /\ house_num = <<>>
                /\ ty \notin {<<"h","o","u","s","e">>, <<"b","u","i","l","d","i","n","g">>,
                              <<"r","e","s","i","d","e","n","t","i","a","l">>}
             THEN FALSE
        ELSE TRUE

\* a faulty validator: expects_house asks for a number in the address text
is_valid_arcgis_with_precision(loc, city_expect, uf_expect, bbox, expects_house) ==
    /\ point_in_bbox(loc.latitude, loc.longitude, bbox)
    /\ contains(upper(loc.address), upper(city_expect))
    /\ \/ contains(upper(loc.address), <<",", " ">> \o upper(uf_expect) \o <<" ">>)
       \/ endswith(upper(loc.address), <<",", " ">> \o upper(uf_expect))
    /\ expects_house => \E j \in 1..Len(loc.address) : loc.address[j] \in Digits
\* loc: [address, latitude, longitude]
is_valid_arcgis(loc, city_expect, uf_expect, bbox, expects_house) ==
    LET addr_text == upper(loc.address)
        ok_city == contains(addr_text, upper(city_expect))
        ok_uf == \/ contains(addr_text, <<",", " ">> \o upper(uf_expect) \o <<" ">>)
                 \/ endswith(addr_text, <<",", " ">> \o upper(uf_expect))
    IN  IF ~point_in_bbox(loc.latitude, loc.longitude, bbox) THEN FALSE
        ELSE IF ~(ok_city /\ ok_uf) THEN FALSE
        ELSE TRUE

\* ------------------------------------------------------------------------
\* Tables: the geocache, the input table, the failure log
\* ------------------------------------------------------------------------
\* cells of the latitude/longitude columns (dtype=str)
EmptyCell == [t |-> "empty", v |-> 0]
\* f"{loc.latitude}"
float_str(x) == [t |-> "num", v |-> x]
\* NaN left by Series.map for a key the dict does not have
NaNCell == [t |-> "nan", v |-> 0]
\* float(cell) raises unless the cell holds a number
float_ok(cell) == cell.t = "num"
\* truth value of a str cell: "" is false
cell_truthy_always(cell) == TRUE
cell_truthy(cell) == cell.t = "num"

\* only_digits
only_digits(x) == SelectSeq(x, LAMBDA c : c \in Digits)
\* load_base: rows [cnpj, endereco] of the CSV that survive the filters
load_base(csv_rows) ==
    LET cleaned == [j \in 1..Len(csv_rows) |->
                       [cnpj |-> only_digits(csv_rows[j].cnpj),
                        endereco |-> strip(csv_rows[j].endereco)]]
    IN  SelectSeq(cleaned, LAMBDA r : Len(r.cnpj) = 14 /\ r.endereco # <<>>)

row_keys(rows) == {rows[j].query : j \in 1..Len(rows)}
\* DataFrame.drop_duplicates("query"): keep="first"
drop_duplicates(rows) ==
    LET keep == {j \in 1..Len(rows) : \A h \in 1..(j - 1) : rows[h].query # rows[j].query}
        nth(n) == CHOOSE j \in keep : Cardinality({h \in keep : h < j}) = n - 1
    IN  [n \in 1..Cardinality(keep) |-> rows[nth(n)]]
\* dict(zip(query, zip(latitude, longitude))): the last row of a key wins
dict_zip(rows) ==
    [q \in row_keys(rows) |->
        LET j == CHOOSE j \in 1..Len(rows) :
                     rows[j].query = q /\ \A h \in (j + 1)..Len(rows) : rows[h].query # q
        IN  [latitude |-> rows[j].latitude, longitude |-> rows[j].longitude]]
\* a faulty concat: the rows already in the table are lost
concat_only_new(geocache_rows, new_rows) == new_rows
\* pd.concat([geocache, tmp], ignore_index=True)
concat(geocache_rows, new_rows) == geocache_rows \o new_rows

\* a file that does not exist
NoFile == [exists |-> FALSE, rows |-> <<>>]
load_or_init_geocache(file) ==
    IF file.exists THEN drop_duplicates(file.rows) ELSE <<>>
save_geocache(df_cache) == [exists |-> TRUE, rows |-> drop_duplicates(df_cache)]

CentroidRadius == 9
abs(x) == IF x < 0 THEN -x ELSE x
\* a faulty pass: every point near the centroid is dropped
cleaned_keys_near_centroid(cm, centroid) ==
    {q \in DOMAIN cm :
        /\ float_ok(cm[q].latitude) /\ float_ok(cm[q].longitude)
        /\ ~(/\ ~centroid.none
             /\ abs(cm[q].latitude.v - centroid.lat) < CentroidRadius
             /\ abs(cm[q].longitude.v - centroid.lon) < CentroidRadius)}
\* the loop over cache_map.items() that builds cleaned_cache: the keys kept
cleaned_keys(cm, centroid) ==
    {q \in DOMAIN cm :
        /\ float_ok(cm[q].latitude) /\ float_ok(cm[q].longitude)
        /\ ~(/\ ~centroid.none
             /\ query_expects_precision(q)
             /\ abs(cm[q].latitude.v - centroid.lat) < CentroidRadius
             /\ abs(cm[q].longitude.v - centroid.lon) < CentroidRadius)}
cleaned_cache(cm, centroid) == [q \in cleaned_keys(cm, centroid) |-> cm[q]]

\* df_base[~df_base["query"].isin(keys)]["query"].drop_duplicates().tolist()
pending_of(base_rows, keys) ==
    LET qs == [j \in 1..Len(base_rows) |-> base_rows[j].endereco]
        keep == {j \in 1..Len(qs) :
                    qs[j] \notin keys /\ \A h \in 1..(j - 1) : qs[h] # qs[j]}
        nth(n) == CHOOSE j \in keep : Cardinality({h \in keep : h < j}) = n - 1
    IN  [n \in 1..Cardinality(keep) |-> qs[nth(n)]]
\* max_geocode None
NoLimit == [none |-> TRUE, n |-> 0]
\* pend[:max_geocode]
limit_pending(pend_list, limit) ==
    IF limit.none THEN pend_list
    ELSE SubSeq(pend_list, 1, IF limit.n < Len(pend_list) THEN limit.n ELSE Len(pend_list))

\* df_base["query"].map(cache_map): the latitude/longitude columns of the result
map_coordinates(base_rows, cm) ==
    [j \in 1..Len(base_rows) |->
        IF base_rows[j].endereco \in DOMAIN cm
        THEN [query |-> base_rows[j].endereco,
              latitude |-> cm[base_rows[j].endereco].latitude,
              longitude |-> cm[base_rows[j].endereco].longitude]
        ELSE [query |-> base_rows[j].endereco,
              latitude |-> NaNCell, longitude |-> NaNCell]]

\* a faulty fail_row: the reason is left out
fail_row_without_reason(q, cands, meta, why) ==
    [query |-> q, norm_base |-> IF cands # <<>> THEN <<cands[1]>> ELSE <<>>,
     expects_house |-> meta.expects_house, has_km |-> meta.has_km,
     candidates |-> cands, reason |-> ""]
\* the row appended to fail_rows
fail_row(q, cands, meta, why) ==
    [query |-> q, norm_base |-> IF cands # <<>> THEN <<cands[1]>> ELSE <<>>,
     expects_house |-> meta.expects_house, has_km |-> meta.has_km,
     candidates |-> cands, reason |-> why]

\* ------------------------------------------------------------------------
\* Command line and environment of a run
\* ------------------------------------------------------------------------
\* --city, --uf and the country passed by geocode_addresses
city_arg == <<"S","ã","o"," ","C","a","r","l","o","s">>
uf_arg == <<"S","P">>
country_arg == <<"B","r","a","s","i","l">>

\* the periodic flush: every 50 addresses in the program, scaled down here
CheckpointEvery == 2

\* Coordinates, in thousandths of a degree
CentroidPoint == [lat |-> -22017, lon |-> -47890]
NearPoint == [lat |-> -22015, lon |-> -47891]
FarPoint == [lat |-> -22050, lon |-> -47950]
OutsidePoint == [lat |-> -23550, lon |-> -46630]

\* What the provider answers to the bounding-box request of fetch_city_bbox:
\* no result, or a result with a boundingbox [south, north, west, east]
BBoxResponses ==
    { [kind |-> "none", boundingbox |-> <<>>, latitude |-> 0, longitude |-> 0],
      [kind |-> "loc", boundingbox |-> <<-22300, -21800, -48100, -47700>>,
       latitude |-> CentroidPoint.lat, longitude |-> CentroidPoint.lon] }
fetch_city_bbox(loc) ==
    IF loc.kind = "none" THEN [bbox |-> NoBBox, centroid |-> NoCentroid]
    ELSE [bbox |-> IF Len(loc.boundingbox) = 4
                   THEN [west |-> loc.boundingbox[3], south |-> loc.boundingbox[1],
                         east |-> loc.boundingbox[4], north |-> loc.boundingbox[2],
                         none |-> FALSE]
                   ELSE NoBBox,
          centroid |-> [lat |-> loc.latitude, lon |-> loc.longitude, none |-> FALSE]]

SaoCarlos == <<"S","ã","o"," ","C","a","r","l","o","s">>
SaoPaulo == <<"S","ã","o"," ","P","a","u","l","o">>
\* a Nominatim Location
nominatim_loc(class, type, cc, city, town, state_code, state, house, point) ==
    [kind |-> "loc",
     raw |-> [class |-> class, type |-> type,
              address |-> [country_code |-> cc, city |-> city, town |-> town,
                           municipality |-> <<>>, village |-> <<>>,
                           state_code |-> state_code, state |-> state,
                           house_number |-> house]],
     latitude |-> point.lat, longitude |-> point.lon]
house_loc(point) ==
    nominatim_loc(<<"b","u","i","l","d","i","n","g">>, <<"h","o","u","s","e">>,
                  <<"b","r">>, SaoCarlos, <<>>, <<"S","P">>, SaoPaulo, <<"1","0">>, point)
\* a geocoder call returns None, raises, or returns a Location
NominatimNone == [house_loc(FarPoint) EXCEPT !.kind = "none"]
NominatimRaises == [house_loc(FarPoint) EXCEPT !.kind = "raise"]
NominatimResponses ==
    { NominatimNone, NominatimRaises,
      house_loc(FarPoint), house_loc(NearPoint), house_loc(OutsidePoint),
      \* a street: no house number, not a house-level type
      nominatim_loc(<<"h","i","g","h","w","a","y">>, <<"t","e","r","t","i","a","r","y">>,
                    <<"B","R">>, <<>>, SaoCarlos, <<"s","p">>, SaoPaulo, <<>>, FarPoint),
      \* the municipality itself
      nominatim_loc(<<"b","o","u","n","d","a","r","y">>,
                    <<"a","d","m","i","n","i","s","t","r","a","t","i","v","e">>,
                    <<"b","r">>, SaoCarlos, <<>>, <<"S","P">>, SaoPaulo, <<>>, CentroidPoint) }

\* an ArcGIS Location
arcgis_loc(address, point) ==
    [kind |-> "loc", address |-> address, latitude |-> point.lat, longitude |-> point.lon]
ArcAddressMid == <<"R","u","a"," ","A",","," ">> \o SaoCarlos \o <<",", " ", "S", "P", " ", "1", "3">>
ArcAddressEnd == <<"R","u","a"," ","A",","," ">> \o SaoCarlos \o <<",", " ", "S", "P">>
ArcAddressOther == <<"R","u","a"," ","A",","," ","I","b","a","t","e",","," ","S","P">>
ArcgisNone == [arcgis_loc(<<>>, FarPoint) EXCEPT !.kind = "none"]
ArcgisRaises == [arcgis_loc(<<>>, FarPoint) EXCEPT !.kind = "raise"]
ArcgisResponses ==
    { ArcgisNone, ArcgisRaises,
      arcgis_loc(ArcAddressMid, FarPoint), arcgis_loc(ArcAddressEnd, NearPoint),
      arcgis_loc(ArcAddressMid, OutsidePoint), arcgis_loc(ArcAddressOther, FarPoint) }

\* Input tables (--base): rows [cnpj, endereco]
Cnpj(d) == [j \in 1..14 |-> d]
AddrHouse == <<"R","u","a"," ","A",","," ","1","0"," ","-"," ","C","e","n","t","r","o">>
AddrPlain == <<"R","U","A"," ","B">>
AddrDash == <<"-">>
BaseTables ==
    { << [cnpj |-> Cnpj("1"), endereco |-> AddrHouse],
         [cnpj |-> Cnpj("2"), endereco |-> <<" ">> \o AddrPlain],
         [cnpj |-> Cnpj("3"), endereco |-> AddrDash],
         [cnpj |-> Cnpj("4"), endereco |-> <<" ">>],
         [cnpj |-> Cnpj("5"), endereco |-> AddrHouse] >>,
      << [cnpj |-> Cnpj("2"), endereco |-> AddrPlain],
         [cnpj |-> <<"3">>, endereco |-> AddrDash] >> }
\* --max-geocode
MaxGeocodeArgs == {NoLimit, [none |-> FALSE, n |-> 1]}
\* how many times the program is run
MaxRuns == 2

\* ------------------------------------------------------------------------
\* State
\* ------------------------------------------------------------------------
VARIABLES
    cache_file,     \* the geocache CSV on disk: [exists, rows]
    fail_file,      \* the failure log CSV on disk: [exists, rows]
    out_json,       \* the JSON written by main: [exists, rows] and the counts of meta
    runs,           \* how many times the program was started
    prev,           \* input and output of the last run that ran to its end
    pc,             \* where main is: idle, bbox, loop, nominatim, arcgis, record, save, json
    df_base,        \* the input table of the run
    geocache,       \* the cache DataFrame in memory
    cache_map,      \* the dict of usable cache entries
    bbox,           \* the bounding box of the city, or NoBBox
    city_centroid,  \* the centroid of the city, or NoCentroid
    max_geocode,    \* --max-geocode
    pend,           \* the addresses to geocode
    i,              \* how many of them are processed
    cands,          \* the candidates of the address being resolved
    meta,           \* its normalisation
    k,              \* the candidate the provider loop is at
    result,         \* what geocode_with_providers returned
    novos,          \* rows not yet concatenated to geocache
    fail_rows,      \* failures of this run
    ok,
    falhas,
    df_geo,         \* the table returned by geocode_addresses
    calls,          \* provider calls made for the address being resolved
    called_for,     \* addresses for which a provider was called in this run
    first_reject,   \* verdict on the first response received for the address
    hit,            \* the response that passed validation, if any
    raised,         \* a provider call for the address raised an exception
    probe,          \* one response put before a hit validator, and the verdict
    parsed,         \* one raw address put before build_candidates, and what it returned
    now,            \* the clock, in half seconds
    last_call,      \* RateLimiter._last_call of nom_geocode and arc_geocode
    sent            \* the outbound calls of the run: <<provider, time>>

vars == <<cache_file, fail_file, out_json, runs, prev, pc, df_base, geocache, cache_map,
          bbox, city_centroid, max_geocode, pend, i, cands, meta, k, result, novos,
          fail_rows, ok, falhas, df_geo, calls, called_for, first_reject, hit, raised,
          probe, parsed, now, last_call, sent>>
\* the state of a run of main
run == <<cache_file, fail_file, out_json, runs, prev, pc, df_base, geocache, cache_map,
         bbox, city_centroid, max_geocode, pend, i, cands, meta, k, result, novos,
         fail_rows, ok, falhas, df_geo, calls, called_for, first_reject, hit, raised>>
\* the two RateLimiter objects and the calls that went out
limiters == <<now, last_call, sent>>
disk == <<cache_file, fail_file, out_json>>
\* the resolution of one address
attempt == <<cands, meta, k, result, calls>>
\* how the resolution of the last address went
outcome == <<first_reject, hit, raised>>

\* the meta of normalize_for_geocode before any address is normalised
NoMeta == [base |-> <<>>, cep |-> None, street |-> <<>>, number |-> <<>>,
           neighbourhood |-> <<>>, has_km |-> FALSE, expects_house |-> FALSE]
NoResult == [latitude |-> EmptyCell, longitude |-> EmptyCell, provider |-> "", why |-> ""]
NoHit == [some |-> FALSE, provider |-> "", k |-> 0, latitude |-> 0, longitude |-> 0]
NoPrev == [done |-> FALSE, input |-> <<>>, output |-> <<>>, unlimited |-> FALSE]

\* a faulty failure: the reason of the failure is another one
failure_no_hit_all ==
    [latitude |-> EmptyCell, longitude |-> EmptyCell, provider |-> "", why |-> "no_hit_all"]
\* return "", "", "", "no_valid_hit"
failure_result ==
    [latitude |-> EmptyCell, longitude |-> EmptyCell, provider |-> "", why |-> "no_valid_hit"]
\* return f"{loc.latitude}", f"{loc.longitude}", provider, ""
hit_result(loc, provider) ==
    [latitude |-> float_str(loc.latitude), longitude |-> float_str(loc.longitude),
     provider |-> provider, why |-> ""]
\* faulty for-loops: a valid hit does not end them
next_attempt_without_return(provider, k_, n, accepted) ==
    IF k_ < n THEN [pc |-> provider, k |-> k_ + 1]
    ELSE IF provider = "nominatim" THEN [pc |-> "arcgis", k |-> 1]
    ELSE [pc |-> "record", k |-> k_]
\* the two for-loops of geocode_with_providers: where control goes after the
\* attempt with candidate k of n at a provider
next_attempt(provider, k_, n, accepted) ==
    IF accepted THEN [pc |-> "record", k |-> k_]
    ELSE IF k_ < n THEN [pc |-> provider, k |-> k_ + 1]
    ELSE IF provider = "nominatim" THEN [pc |-> "arcgis", k |-> 1]
    ELSE [pc |-> "record", k |-> k_]
\* a faulty handler: the exception ends the attempts for the address
on_exception_give_up(provider, k_, n) == [pc |-> "record", k |-> k_]
\* except Exception: pass, around the call and the validation of candidate k
\* of n: the for-loop goes on as after a candidate without a valid hit
on_exception(provider, k_, n) == next_attempt(provider, k_, n, FALSE)
\* a faulty novos_row: the key is the normalised address
novos_row_normalized(q, res) ==
    [query |-> normalize_for_geocode(q).base, latitude |-> res.latitude,
     longitude |-> res.longitude]
\* the row appended to novos
novos_row(q, res) == [query |-> q, latitude |-> res.latitude, longitude |-> res.longitude]
\* if i % 50 == 0
is_checkpoint(n) == n % CheckpointEvery = 0
\* a faulty flush: only the newest failure row is written
write_fail_log_last_row(file, rows) ==
    IF rows # <<>> THEN [exists |-> TRUE, rows |-> <<rows[Len(rows)]>>] ELSE file
\* pd.DataFrame(fail_rows).to_csv(failures_log) when fail_rows is not empty
write_fail_log(file, rows) == IF rows # <<>> THEN [exists |-> TRUE, rows |-> rows] ELSE file

\* no response is before a validator
NoProbe == [stage |-> "none", provider |-> "", loc |-> <<>>, bbox |-> NoBBox,
            expects_house |-> FALSE, valid |-> FALSE]
\* RateLimiter._last_call = None, for both limiters
NeverCalled == [nominatim |-> [none |-> TRUE, at |-> 0], arcgis |-> [none |-> TRUE, at |-> 0]]

\* before main is started
InitRun ==
    /\ cache_file = NoFile /\ fail_file = NoFile /\ out_json = NoFile
    /\ runs = 0 /\ prev = NoPrev /\ pc = "idle"
    /\ df_base = <<>> /\ geocache = <<>> /\ cache_map = <<>>
    /\ bbox = NoBBox /\ city_centroid = NoCentroid /\ max_geocode = NoLimit
    /\ pend = <<>> /\ i = 0 /\ cands = <<>> /\ meta = NoMeta /\ k = 0
    /\ result = NoResult /\ novos = <<>> /\ fail_rows = <<>> /\ ok = 0 /\ falhas = 0
    /\ df_geo = <<>> /\ calls = <<>> /\ called_for = {} /\ first_reject = "no_hit_all"
    /\ hit = NoHit /\ raised = FALSE
InitLimiters == now = 0 /\ last_call = NeverCalled /\ sent = <<>>
\* no address was put before build_candidates
NoParsed == [stage |-> "none", endereco_raw |-> <<>>, t |-> <<>>, split |-> <<>>,
             cands |-> <<>>, meta |-> NoMeta]
Init == InitRun /\ probe = NoProbe /\ parsed = NoParsed /\ InitLimiters

\* nothing of an address's resolution is left
NoAttempt ==
    /\ cands' = <<>> /\ meta' = NoMeta /\ k' = 0 /\ result' = NoResult /\ calls' = <<>>
NoOutcome == first_reject' = "no_hit_all" /\ hit' = NoHit /\ raised' = FALSE

\* the memory of the process is gone when it ends
ProcessEnds ==
    /\ df_base' = <<>> /\ geocache' = <<>> /\ cache_map' = <<>>
    /\ bbox' = NoBBox /\ city_centroid' = NoCentroid /\ max_geocode' = NoLimit
    /\ pend' = <<>> /\ i' = 0 /\ novos' = <<>> /\ fail_rows' = <<>> /\ ok' = 0 /\ falhas' = 0
    /\ df_geo' = <<>> /\ called_for' = {}
    /\ NoAttempt /\ NoOutcome

\* main, steps 1 to 3: the arguments, load_base, load_or_init_geocache
LoadInputs(csv_rows, limit) ==
    /\ pc = "idle"
    /\ UNCHANGED <<probe, parsed, limiters>>
    /\ runs < MaxRuns
    /\ runs' = runs + 1
    /\ df_base' = load_base(csv_rows)
    /\ geocache' = load_or_init_geocache(cache_file)
    /\ max_geocode' = limit
    /\ pc' = "bbox"
    /\ UNCHANGED <<disk, prev, cache_map, bbox, city_centroid, pend, i, novos, fail_rows,
                   ok, falhas, df_geo, called_for, attempt, outcome>>

\* geocode_addresses up to the batch loop: fetch_city_bbox, the pass over the
\* cache, the pending list
FetchCityBBox(bbox_response) ==
    /\ pc = "bbox"
    /\ UNCHANGED <<probe, parsed, limiters>>
    /\ LET city == fetch_city_bbox(bbox_response)
           cleaned == cleaned_cache(dict_zip(geocache), city.centroid)
       IN  /\ bbox' = city.bbox
           /\ city_centroid' = city.centroid
           /\ cache_map' = cleaned
           /\ pend' = limit_pending(pending_of(df_base, DOMAIN cleaned), max_geocode)
    /\ pc' = "loop"
    /\ UNCHANGED <<disk, runs, prev, df_base, geocache, max_geocode, i, novos, fail_rows,
                   ok, falhas, df_geo, called_for, attempt, outcome>>

\* the bounding-box request of fetch_city_bbox raises: nothing catches it
BBoxRequestRaises ==
    /\ pc = "bbox"
    /\ UNCHANGED <<probe, parsed, limiters>>
    /\ pc' = "idle"
    /\ ProcessEnds
    /\ UNCHANGED <<disk, runs, prev>>

\* for i, q in enumerate(pend, 1): build_candidates, and the start of
\* geocode_with_providers
NextAddress ==
    /\ pc = "loop"
    /\ UNCHANGED <<probe, parsed, limiters>>
    /\ i < Len(pend)
    /\ LET built == build_candidates(pend[i + 1], city_arg, uf_arg, country_arg)
       IN  /\ cands' = built.cands
           /\ meta' = built.meta
           /\ pc' = IF built.cands = <<>> THEN "record" ELSE "nominatim"
           /\ result' = IF built.cands = <<>> THEN failure_result ELSE NoResult
    /\ k' = 1
    /\ NoOutcome
    /\ UNCHANGED <<disk, runs, prev, df_base, geocache, cache_map, bbox, city_centroid,
                   max_geocode, pend, i, novos, fail_rows, ok, falhas, df_geo,
                   calls, called_for>>

\* which check of is_valid_nominatim turns a response down
nominatim_verdict(loc, bb, expects_house) ==
    LET addr == loc.raw.address
    IN  IF is_boundary_or_place_city(loc.raw) THEN "reject:boundary-centroid"
        ELSE IF lower(addr.country_code) # <<"b","r">> THEN "reject:country"
        ELSE IF ~(/\ contains(upper(_addr_city_like(addr)), upper(city_arg))
                  /\ \/ upper(uf_arg) = upper(addr.state_code)
                     \/ contains(upper(addr.state), upper(uf_arg)))
             THEN "reject:addr_mismatch"
        ELSE IF ~point_in_bbox(loc.latitude, loc.longitude, bb) THEN "reject:outside_bbox"
        ELSE IF ~is_valid_nominatim(loc, city_arg, uf_arg, bb, expects_house)
             THEN "reject:precision"
        ELSE "accept"
\* which check of is_valid_arcgis turns a response down
arcgis_verdict(loc, bb) ==
    IF ~point_in_bbox(loc.latitude, loc.longitude, bb) THEN "reject:outside_bbox"
    ELSE IF ~is_valid_arcgis(loc, city_arg, uf_arg, bb, FALSE) THEN "reject:addr_mismatch"
    ELSE "accept"

\* one iteration of "for q in candidates" at Nominatim
NominatimCall(response) ==
    /\ pc = "nominatim"
    /\ UNCHANGED <<probe, parsed, limiters>>
    /\ LET accepted == /\ response.kind = "loc"
                       /\ is_valid_nominatim(response, city_arg, uf_arg, bbox,
                                             meta.expects_house)
           next == IF response.kind = "raise"
                   THEN on_exception("nominatim", k, Len(cands))
                   ELSE next_attempt("nominatim", k, Len(cands), accepted)
       IN  /\ pc' = next.pc
           /\ k' = next.k
           /\ result' = IF accepted THEN hit_result(response, "nominatim") ELSE result
           /\ hit' = IF accepted
                     THEN [some |-> TRUE, provider |-> "nominatim", k |-> k,
                           latitude |-> response.latitude, longitude |-> response.longitude]
                     ELSE hit
           /\ first_reject' =
                  IF response.kind = "loc" /\ ~accepted /\ first_reject = "no_hit_all"
                  THEN nominatim_verdict(response, bbox, meta.expects_house)
                  ELSE first_reject
    /\ calls' = Append(calls, <<"nominatim", k>>)
    /\ raised' = (raised \/ response.kind = "raise")
    /\ called_for' = called_for \cup {pend[i + 1]}
    /\ UNCHANGED <<disk, runs, prev, df_base, geocache, cache_map, bbox, city_centroid,
                   max_geocode, pend, i, cands, meta, novos, fail_rows, ok, falhas, df_geo>>

\* one iteration of "for q in candidates" at ArcGIS; after the last one
\* geocode_with_providers returns the failure
ArcgisCall(response) ==
    /\ pc = "arcgis"
    /\ UNCHANGED <<probe, parsed, limiters>>
    /\ LET accepted == /\ response.kind = "loc"
                       /\ is_valid_arcgis(response, city_arg, uf_arg, bbox,
                                          meta.expects_house)
           next == IF response.kind = "raise"
                   THEN on_exception("arcgis", k, Len(cands))
                   ELSE next_attempt("arcgis", k, Len(cands), accepted)
       IN  /\ pc' = next.pc
           /\ k' = next.k
           /\ result' = IF accepted THEN hit_result(response, "arcgis")
                        ELSE IF next.pc = "record" THEN failure_result
                        ELSE result
           /\ hit' = IF accepted
                     THEN [some |-> TRUE, provider |-> "arcgis", k |-> k,
                           latitude |-> response.latitude, longitude |-> response.longitude]
                     ELSE hit
           /\ first_reject' =
                  IF response.kind = "loc" /\ ~accepted /\ first_reject = "no_hit_all"
                  THEN arcgis_verdict(response, bbox)
                  ELSE first_reject
    /\ calls' = Append(calls, <<"arcgis", k>>)
    /\ raised' = (raised \/ response.kind = "raise")
    /\ called_for' = called_for \cup {pend[i + 1]}
    /\ UNCHANGED <<disk, runs, prev, df_base, geocache, cache_map, bbox, city_centroid,
                   max_geocode, pend, i, cands, meta, novos, fail_rows, ok, falhas, df_geo>>

\* the rest of the loop body: the counters, fail_rows, novos, the periodic flush
Record ==
    /\ pc = "record"
    /\ UNCHANGED <<probe, parsed, limiters>>
    /\ LET q == pend[i + 1]
           success == cell_truthy(result.latitude) /\ cell_truthy(result.longitude)
           fails == IF success THEN fail_rows
                    ELSE Append(fail_rows, fail_row(q, cands, meta, result.why))
           rows == Append(novos, novos_row(q, result))
       IN  /\ ok' = IF success THEN ok + 1 ELSE ok
           /\ falhas' = IF success THEN falhas ELSE falhas + 1
           /\ fail_rows' = fails
           /\ IF is_checkpoint(i + 1)
              THEN /\ geocache' = concat(geocache, rows)
                   /\ novos' = <<>>
                   /\ fail_file' = write_fail_log(fail_file, fails)
              ELSE /\ novos' = rows
                   /\ UNCHANGED <<geocache, fail_file>>
    /\ i' = i + 1
    /\ pc' = "loop"
    /\ NoAttempt
    /\ UNCHANGED <<cache_file, out_json, runs, prev, df_base, cache_map, bbox, city_centroid,
                   max_geocode, pend, df_geo, called_for, outcome>>

\* after the loop: the last rows, the failure log, the coordinates of the table
FinishLoop ==
    /\ pc = "loop"
    /\ UNCHANGED <<probe, parsed, limiters>>
    /\ i = Len(pend)
    /\ LET gc == IF novos # <<>> THEN concat(geocache, novos) ELSE geocache
       IN  /\ geocache' = gc
           /\ cache_map' = dict_zip(gc)
           /\ df_geo' = map_coordinates(df_base, dict_zip(gc))
    /\ fail_file' = write_fail_log(fail_file, fail_rows)
    /\ pc' = "save"
    /\ NoOutcome
    /\ UNCHANGED <<cache_file, out_json, runs, prev, df_base, bbox, city_centroid,
                   max_geocode, pend, i, novos, fail_rows, ok, falhas, called_for, attempt>>

\* main, step 5
SaveCache ==
    /\ pc = "save"
    /\ UNCHANGED <<probe, parsed, limiters>>
    /\ cache_file' = save_geocache(geocache)
    /\ pc' = "json"
    /\ UNCHANGED <<fail_file, out_json, runs, prev, df_base, geocache, cache_map, bbox,
                   city_centroid, max_geocode, pend, i, novos, fail_rows, ok, falhas,
                   df_geo, called_for, attempt, outcome>>

\* s(x) of main on a cell of df_geo: NaN becomes ""
s_cell(cell) == IF cell.t = "nan" THEN EmptyCell ELSE cell
json_features_nan_as_value(rows, keep_missing) ==
    LET shown == [j \in 1..Len(rows) |->
                     [endereco |-> rows[j].query,
                      latitude |-> rows[j].latitude,
                      longitude |-> rows[j].longitude]]
    IN  SelectSeq(shown, LAMBDA r :
                      keep_missing \/ ~(r.latitude = EmptyCell \/ r.longitude = EmptyCell))
\* the features of the JSON
json_features(rows, keep_missing) ==
    LET shown == [j \in 1..Len(rows) |->
                     [endereco |-> rows[j].query,
                      latitude |-> s_cell(rows[j].latitude),
                      longitude |-> s_cell(rows[j].longitude)]]
    IN  SelectSeq(shown, LAMBDA r :
                      keep_missing \/ ~(r.latitude = EmptyCell \/ r.longitude = EmptyCell))

\* main, step 6, and the end of the process
WriteJson(keep_missing) ==
    /\ pc = "json"
    /\ UNCHANGED <<probe, parsed, limiters>>
    /\ out_json' = [exists |-> TRUE, rows |-> json_features(df_geo, keep_missing),
                    count_input |-> Len(df_geo),
                    count_output |-> Len(json_features(df_geo, keep_missing))]
    /\ prev' = [done |-> TRUE, input |-> df_base, output |-> df_geo,
                unlimited |-> max_geocode.none]
    /\ pc' = "idle"
    /\ ProcessEnds
    /\ UNCHANGED <<cache_file, fail_file, runs>>

Next ==
    \/ \E csv_rows \in BaseTables, limit \in MaxGeocodeArgs : LoadInputs(csv_rows, limit)
    \/ \E response \in BBoxResponses : FetchCityBBox(response)
    \/ BBoxRequestRaises
    \/ NextAddress
    \/ \E response \in NominatimResponses : NominatimCall(response)
    \/ \E response \in ArcgisResponses : ArcgisCall(response)
    \/ Record
    \/ FinishLoop
    \/ SaveCache
    \/ \E keep_missing \in BOOLEAN : WriteJson(keep_missing)

Spec == Init /\ [][Next]_vars

\* ------------------------------------------------------------------------
\* The hit validators on single responses
\* ------------------------------------------------------------------------
\* the bounding box of the city, as fetch_city_bbox returns it
CityBBox ==
    fetch_city_bbox([kind |-> "loc", boundingbox |-> <<-22300, -21800, -48100, -47700>>,
                     latitude |-> CentroidPoint.lat, longitude |-> CentroidPoint.lon]).bbox
\* points inside the box, on its west edge, east of it at a latitude of the
\* box, outside it, and at a latitude that no place has
ProbePoints ==
    {FarPoint, [lat |-> -22000, lon |-> -48100], [lat |-> -22017, lon |-> -46630],
     OutsidePoint, [lat |-> 91000, lon |-> -47890]}
\* Nominatim results: class and type, country_code, city and town,
\* state_code and state, house_number, point
ProbeNominatim ==
    LET kinds ==
            { <<<<"p","l","a","c","e">>, <<"h","o","u","s","e">>>>,
              <<<<"h","i","g","h","w","a","y">>, <<"r","e","s","i","d","e","n","t","i","a","l">>>>,
              <<<<"h","i","g","h","w","a","y">>, <<"t","e","r","t","i","a","r","y">>>>,
              <<<<"b","o","u","n","d","a","r","y">>, <<"a","d","m","i","n","i","s","t","r","a","t","i","v","e">>>>,
              <<<<"b","o","u","n","d","a","r","y">>, <<"t","o","w","n">>>>,
              <<<<"p","l","a","c","e">>, <<"c","i","t","y">>>>,
              <<<<"p","l","a","c","e">>, <<"m","u","n","i","c","i","p","a","l","i","t","y">>>>,
              <<<<"b","o","u","n","d","a","r","y">>, <<"p","o","s","t","a","l","_","c","o","d","e">>>>,
              <<<<"p","l","a","c","e">>, <<"s","u","b","u","r","b">>>> }
        cities == { <<SaoCarlos, <<>>>>, <<<<>>, SaoCarlos>>, <<<<"I","b","a","t","é">>, <<>>>> }
        states == { <<<<"S","P">>, SaoPaulo>>, <<<<>>, SaoPaulo>>,
                    <<<<"M","G">>, <<"M","i","n","a","s"," ","G","e","r","a","i","s">>>> }
    IN  { nominatim_loc(kind[1], kind[2], cc, city[1], city[2], state[1], state[2],
                        house, point) :
              kind \in kinds, cc \in {<<"b","r">>, <<"B","R">>, <<"a","r">>}, city \in cities,
              state \in states, house \in {<<>>, <<" ">>, <<"1","0">>},
              point \in ProbePoints }
\* ArcGIS results: address text, point
ProbeArcgis ==
    LET addresses ==
            { ArcAddressMid, ArcAddressEnd, ArcAddressOther, lower(ArcAddressEnd),
              <<"R","u","a"," ","A"," ","-"," ">> \o SaoCarlos \o <<" ","-"," ","S","P">>, <<>> }
    IN  { arcgis_loc(address, point) : address \in addresses, point \in ProbePoints }
\* a response, the bounding box of the run and the expects_house of the address
ProbeInputs ==
    { [stage |-> "input", provider |-> provider, loc |-> loc, bbox |-> bb,
       expects_house |-> expects_house, valid |-> FALSE] :
          provider \in {"nominatim"}, loc \in ProbeNominatim,
          bb \in {NoBBox, CityBBox}, expects_house \in BOOLEAN }
    \cup
    { [stage |-> "input", provider |-> provider, loc |-> loc, bbox |-> bb,
       expects_house |-> expects_house, valid |-> FALSE] :
          provider \in {"arcgis"}, loc \in ProbeArcgis,
          bb \in {NoBBox, CityBBox}, expects_house \in BOOLEAN }

ValidatorInit == InitRun /\ InitLimiters /\ parsed = NoParsed /\ probe \in ProbeInputs

\* is_valid_nominatim(loc, cidade, uf, bbox, expects_house), as
\* geocode_with_providers calls it
ValidateNominatim ==
    /\ probe.stage = "input" /\ probe.provider = "nominatim"
    /\ probe' = [probe EXCEPT !.stage = "validated",
                              !.valid = is_valid_nominatim(probe.loc, city_arg, uf_arg,
                                                           probe.bbox, probe.expects_house)]
    /\ UNCHANGED <<run, parsed, limiters>>
\* is_valid_arcgis(loc, cidade, uf, bbox, expects_house)
ValidateArcgis ==
    /\ probe.stage = "input" /\ probe.provider = "arcgis"
    /\ probe' = [probe EXCEPT !.stage = "validated",
                              !.valid = is_valid_arcgis(probe.loc, city_arg, uf_arg,
                                                        probe.bbox, probe.expects_house)]
    /\ UNCHANGED <<run, parsed, limiters>>

ValidatorSpec == ValidatorInit /\ [][ValidateNominatim \/ ValidateArcgis]_vars

\* ------------------------------------------------------------------------
\* The outbound calls of a run and the two RateLimiter objects
\* ------------------------------------------------------------------------
\* how long the clock is followed, in half seconds
MaxTime == 6
\* min_delay_seconds of nom_geocode (1.0) and of arc_geocode (0.5), in half
\* seconds
min_delay_seconds == [nominatim |-> 2, arcgis |-> 1]
\* RateLimiter.__call__ takes its slot: at once when the limiter was never
\* called or min_delay_seconds have passed since its last call, otherwise
\* after sleeping for the rest of the delay
slot_time(last, delay, clock) ==
    IF last.none \/ delay - (clock - last.at) <= 0 THEN clock ELSE last.at + delay

\* fetch_city_bbox: nominatim.geocode is called as it is, not through
\* nom_geocode, at the start of geocode_addresses
BBoxRequest ==
    /\ sent = <<>>
    /\ sent' = <<<<"nominatim", now>>>>
    /\ UNCHANGED <<run, probe, parsed, now, last_call>>
\* time passes: a call is answered, the program computes
TimePasses ==
    /\ now < MaxTime
    /\ now' = now + 1
    /\ UNCHANGED <<run, probe, parsed, last_call, sent>>
\* RateLimiter.__call__: the limiter takes its slot, notes it in _last_call
\* and calls the function it wraps
limited_call(provider) ==
    LET at == slot_time(last_call[provider], min_delay_seconds[provider], now)
    IN  [at |-> at,
         last_call |-> [last_call EXCEPT ![provider] = [none |-> FALSE, at |-> at]]]
\* nom_geocode(q, ...) for a candidate
NomGeocode ==
    /\ sent # <<>>
    /\ limited_call("nominatim").at <= MaxTime
    /\ now' = limited_call("nominatim").at
    /\ last_call' = limited_call("nominatim").last_call
    /\ sent' = Append(sent, <<"nominatim", now'>>)
    /\ UNCHANGED <<run, probe, parsed>>
\* arc_geocode(q_str, ...) for a candidate
ArcGeocode ==
    /\ sent # <<>>
    /\ limited_call("arcgis").at <= MaxTime
    /\ now' = limited_call("arcgis").at
    /\ last_call' = limited_call("arcgis").last_call
    /\ sent' = Append(sent, <<"arcgis", now'>>)
    /\ UNCHANGED <<run, probe, parsed>>

RateSpec == Init /\ [][BBoxRequest \/ TimePasses \/ NomGeocode \/ ArcGeocode]_vars

\* ------------------------------------------------------------------------
\* build_candidates and normalize_for_geocode on their own: one raw address
\* of the input table, and what build_candidates returns for it
\* ------------------------------------------------------------------------
\* the raw addresses: a street, a number after it, and what follows
RawAddresses ==
    LET streets == {<<>>,
                       <<"R","U","A"," ","A">>,
                       <<"A","V","E","N","I","D","A"," ","B","R","A","S","I","L">>,
                       <<"A","V","."," ","B","R","A","S","I","L">>,
                       <<"R","U","A","B">>,
                       <<"V","I","E","L","A"," ","3">>,
                       <<"R","O","D","O","V","I","A"," ","X"," ","K","M"," ","1","0">>,
                       <<"R","u","a"," ","d","a","s"," ","F","l","o","r","e","s">>}
        numbers == {<<>>,
                       <<","," ","1","2","3">>,
                       <<","," ","S","/","N">>}
        tails == {<<>>,
                     <<" ","-"," ","C","E","N","T","R","O">>,
                     <<","," ","C","E","N","T","R","O",","," ","S","A","O"," ","C","A","R","L","O","S">>,
                     <<" ","-"," ","C","E","P"," ","1","3","5","6","5","-","0","0","0">>,
                     <<" ","-"," ","C","E","N","T","R","O"," ","-"," ","S","Ã","O"," ","C","A","R","L","O","S","/","S","P"," ","-"," ","C","E","P"," ","1","3","5","6","0","-","0","0","0">>,
                     <<" ","C","E","P"," ","1","3","5","6","5","0","0","0"," ","C","E","P"," ","1","3","5","6","0","-","9","7","0">>}
    IN  {st \o nu \o ta : st \in streets, nu \in numbers, ta \in tails}
NormalizeInit ==
    /\ InitRun /\ InitLimiters /\ probe = NoProbe
    /\ \E raw \in RawAddresses :
           parsed = [NoParsed EXCEPT !.stage = "input", !.endereco_raw = raw]

\* cands, meta = build_candidates(addr, cidade, uf, country), as
\* geocode_with_providers calls it; t is the working string of
\* normalize_for_geocode before the loop over _PREFIXES and split after it
BuildCandidates ==
    /\ parsed.stage = "input"
    /\ LET built == build_candidates(parsed.endereco_raw, city_arg, uf_arg, country_arg)
           t1 == _strip_parentheses(strip(upper(parsed.endereco_raw)))
       IN  parsed' = [parsed EXCEPT !.stage = "built",
                                    !.t = t1,
                                    !.split = after(t1, split_prefixes(t1, 1)),
                                    !.cands = built.cands,
                                    !.meta = built.meta]
    /\ UNCHANGED <<run, probe, limiters>>
NormalizeSpec == NormalizeInit /\ [][BuildCandidates]_vars

\* ------------------------------------------------------------------------
\* Properties
\* ------------------------------------------------------------------------
\* the addresses of a table
addresses_of(base_rows) == {base_rows[j].endereco : j \in 1..Len(base_rows)}
\* the elements of a list
elements(list) == {list[j] : j \in 1..Len(list)}
\* latitude and longitude of a row
coordinates(row) == [latitude |-> row.latitude, longitude |-> row.longitude]
\* the last row of a table
last_row(rows) == rows[Len(rows)]
\* the rows of the cache, flushed or not
recorded == geocache \o novos
\* the run is at the start of the batch loop
AtLoopStart == pc = "loop" /\ i = 0
\* the run is in the batch loop
InLoop == pc \in {"loop", "nominatim", "arcgis", "record"}
\* the last address of the loop is recorded and no other is started
AddressRecorded == pc = "loop" /\ i > 0
\* has_empty_pair: both cells of a cache row are empty
has_empty_pair(row) == row.latitude = EmptyCell /\ row.longitude = EmptyCell
\* the keys of a cache that the centroid-suspect pass invalidates: they expect
\* house precision and their point is within the radius of the city centroid
centroid_suspect(rows, centroid) ==
    {q \in row_keys(rows) :
        LET c == dict_zip(rows)[q]
        IN  /\ ~centroid.none
            /\ query_expects_precision(q)
            /\ float_ok(c.latitude) /\ float_ok(c.longitude)
            /\ abs(c.latitude.v - centroid.lat) < CentroidRadius
            /\ abs(c.longitude.v - centroid.lon) < CentroidRadius}
\* every candidate at Nominatim, then every candidate at ArcGIS
provider_order(n) ==
    [j \in 1..(2 * n) |-> IF j <= n THEN <<"nominatim", j>> ELSE <<"arcgis", j - n>>]

\* C1: a run with the same input table as the run before it, and the cache
\* that run left, calls no provider and gives every address the same
\* coordinates (both runs without --max-geocode)
C1_RerunIsIdempotent ==
    (pc = "json" /\ prev.done /\ prev.unlimited /\ max_geocode.none /\ prev.input = df_base)
        => (called_for = {} /\ df_geo = prev.output)

\* C2: without --max-geocode, the pending list is the distinct input
\* addresses minus the cache keys that the centroid-suspect pass leaves;
\* no other cached key is pending, no uncached address is skipped
C2_PendingIsInputMinusCache ==
    (AtLoopStart /\ max_geocode.none)
        => /\ elements(pend) = addresses_of(df_base)
                  \ (row_keys(geocache) \ centroid_suspect(geocache, city_centroid))
           /\ Cardinality(elements(pend)) = Len(pend)

\* C3: an address cached with an empty coordinate pair is a cache hit: it is
\* not pending in a later run and no provider is called for it
C3_EmptyPairIsCacheHit ==
    InLoop => \A j \in 1..Len(cache_file.rows) :
                  has_empty_pair(cache_file.rows[j])
                      => /\ cache_file.rows[j].query \notin elements(pend)
                         /\ cache_file.rows[j].query \notin called_for

\* C4: during the loop the cache on disk has an entry for every address
\* processed up to the last periodic checkpoint, and at the end of the run
\* for every address processed
C4_CheckpointPersistsCache ==
    /\ InLoop => \A j \in 1..(i - (i % CheckpointEvery)) :
                     pend[j] \in row_keys(cache_file.rows)
    /\ pc = "json" => elements(pend) \subseteq row_keys(cache_file.rows)

\* C5: after the flush, the one persisted row of a query recorded in this
\* run holds the coordinates recorded last for it
C5_LastWriteWins ==
    pc = "json" =>
        \A j \in 1..Len(pend) :
            LET rows == SelectSeq(cache_file.rows, LAMBDA r : r.query = pend[j])
            IN  /\ Len(rows) = 1
                /\ coordinates(rows[1]) = dict_zip(geocache)[pend[j]]

\* C6: a key of the cache file before a run is a key of the cache file after
\* it, unless the centroid-suspect pass invalidated it
C6_CacheKeysMonotonic ==
    [][\A q \in row_keys(cache_file.rows) :
           \/ q \in row_keys(cache_file'.rows)
           \/ q \in centroid_suspect(load_or_init_geocache(cache_file), city_centroid)]_vars
\* a run saved the cache with a key that its input table does not have
C6_Witness ==
    /\ pc = "json" /\ runs = 2 /\ Len(pend) > 0
    /\ \E q \in row_keys(cache_file.rows) : q \notin addresses_of(df_base)

\* C7: the cache row recorded for an address with a validated hit has the
\* address as in the input table as its key and the coordinates of the hit,
\* and the run has no failure row for the address
C7_HitRecordedUnderInputAddress ==
    (AddressRecorded /\ hit.some)
        => /\ last_row(recorded).query = pend[i]
           /\ pend[i] \in addresses_of(df_base)
           /\ coordinates(last_row(recorded))
                  = [latitude |-> float_str(hit.latitude),
                     longitude |-> float_str(hit.longitude)]
           /\ \A j \in 1..Len(fail_rows) : fail_rows[j].query # pend[i]
\* a hit is recorded for an address that its normalisation changes
C7_Witness ==
    /\ AddressRecorded /\ hit.some
    /\ pend[i] = AddrHouse
    /\ last_row(recorded).query = AddrHouse

C9_NoValidHitOnExhaustion ==
    pc = "record"
        => /\ ~hit.some
                  => /\ result = [latitude |-> EmptyCell, longitude |-> EmptyCell,
                                  provider |-> "", why |-> "no_valid_hit"]
                     /\ calls = provider_order(Len(cands))
           /\ result.why # "" => (~hit.some /\ calls = provider_order(Len(cands)))
\* every candidate of an address with several was tried at both providers
C9_Witness ==
    /\ pc = "record" /\ ~hit.some
    /\ Len(cands) > 1 /\ Len(calls) = 2 * Len(cands)
    /\ result.why = "no_valid_hit"

\* C10: the calls for an address follow the order Nominatim then ArcGIS,
\* candidates in list order; the first valid hit ends them, and its
\* coordinates and provider are what is returned
C10_ProviderOrderFirstHit ==
    /\ calls = SubSeq(provider_order(Len(cands)), 1, Len(calls))
    /\ pc \in {"nominatim", "arcgis"} => ~hit.some
    /\ (pc = "record" /\ hit.some)
           => /\ last_row(calls) = <<hit.provider, hit.k>>
              /\ result = [latitude |-> float_str(hit.latitude),
                           longitude |-> float_str(hit.longitude),
                           provider |-> hit.provider, why |-> ""]
\* ArcGIS gives the hit, after every candidate failed at Nominatim
C10_Witness ==
    /\ pc = "record" /\ hit.some
    /\ hit.provider = "arcgis" /\ hit.k > 1
    /\ Len(calls) = Len(cands) + hit.k

\* C11: a provider call that raises is a failed attempt for its candidate
\* only. The step of the raising call gives no hit, goes on to the next
\* candidate, or to the first candidate of ArcGIS after the last one of
\* Nominatim, or to the failure after the last one of ArcGIS, and leaves
\* the files, the pending list and the rows of the run as they are; an
\* address left without a hit had every candidate tried at both providers;
\* the address is recorded and the batch loop goes on
C11_ExceptionIsFailedAttempt ==
    [][/\ (raised' /\ ~raised)
           => /\ ~hit'.some
              /\ IF k < Len(cands) THEN pc' = pc /\ k' = k + 1
                 ELSE IF pc = "nominatim" THEN pc' = "arcgis" /\ k' = 1
                 ELSE pc' = "record" /\ result' = failure_result
              /\ UNCHANGED <<disk, pend, i, novos, fail_rows, geocache>>
       /\ (raised' /\ pc' = "record" /\ ~hit'.some)
           => calls' = provider_order(Len(cands'))
       /\ (raised /\ pc = "record")
           => /\ pc' = "loop" /\ i' = i + 1
              /\ last_row(geocache' \o novos').query = pend[i + 1]
       /\ (raised /\ pc = "loop")
           => pc' = IF i < Len(pend) THEN (IF cands' = <<>> THEN "record" ELSE "nominatim")
                    ELSE "save"]_vars
\* a Nominatim call raised and a later candidate gave the hit at Nominatim
\* that is recorded
C11_Witness ==
    /\ AddressRecorded /\ raised
    /\ hit.some /\ hit.provider = "nominatim" /\ hit.k > 1

\* C12: the run goes on from the bounding-box request to the batch loop,
\* whatever becomes of the request; when it has no bounding box, every
\* coordinate passes the spatial check
C12_RunGoesOnWithoutBBox ==
    [][pc = "bbox"
           => /\ pc' = "loop"
              /\ bbox'.none
                     => \A p \in {CentroidPoint, NearPoint, FarPoint, OutsidePoint} :
                            point_in_bbox(p.lat, p.lon, bbox')]_vars

\* C13: a run that was started ends completed: the loop has processed every
\* pending address once, resolved or not, and the cache and the failure rows
\* of the run are on disk when the process ends
C13_RunCompletes ==
    /\ pc \in {"save", "json"}
           => /\ i = Len(pend) /\ ok + falhas = Len(pend)
              /\ Len(fail_rows) = falhas
    /\ pc = "json"
           => /\ cache_file.exists
              /\ elements(pend) \subseteq row_keys(cache_file.rows)
              /\ falhas > 0 => fail_file.rows = fail_rows
    /\ (pc = "idle" /\ runs > 0) => (prev.done /\ cache_file.exists)

\* the probe is a Nominatim response that is_valid_nominatim has judged
NominatimJudged == probe.stage = "validated" /\ probe.provider = "nominatim"
\* the probe is an ArcGIS response that is_valid_arcgis has judged
ArcgisJudged == probe.stage = "validated" /\ probe.provider = "arcgis"
\* class and type mark an administrative boundary or a city, town or
\* municipality place
marks_boundary_or_city(raw) ==
    \/ /\ raw.class = <<"b","o","u","n","d","a","r","y">>
       /\ raw.type = <<"a","d","m","i","n","i","s","t","r","a","t","i","v","e">>
    \/ /\ raw.class \in {<<"b","o","u","n","d","a","r","y">>, <<"p","l","a","c","e">>}
       /\ raw.type \in {<<"c","i","t","y">>, <<"t","o","w","n">>,
                        <<"m","u","n","i","c","i","p","a","l","i","t","y">>}

strictly_outside(loc, bb) ==
    \/ loc.latitude < bb.south \/ loc.latitude > bb.north
    \/ loc.longitude < bb.west \/ loc.longitude > bb.east
strictly_inside(loc, bb) ==
    /\ bb.south < loc.latitude /\ loc.latitude < bb.north
    /\ bb.west < loc.longitude /\ loc.longitude < bb.east
\* the address of a Nominatim response names Brazil, the expected city, the
\* expected state
in_brazil(addr) == lower(addr.country_code) = <<"b","r">>
matches_city(addr) == contains(upper(_addr_city_like(addr)), upper(city_arg))
matches_state(addr) ==
    upper(addr.state_code) = upper(uf_arg) \/ contains(upper(addr.state), upper(uf_arg))
\* the address text of an ArcGIS response names the expected city and state
text_matches(text) ==
    /\ contains(upper(text), upper(city_arg))
    /\ \/ contains(upper(text), <<",", " ">> \o upper(uf_arg) \o <<" ">>)
       \/ endswith(upper(text), <<",", " ">> \o upper(uf_arg))

other_checks_pass ==
    /\ ~is_boundary_or_place_city(probe.loc.raw)
    /\ in_brazil(probe.loc.raw.address)
    /\ point_in_bbox(probe.loc.latitude, probe.loc.longitude, probe.bbox)
    /\ probe.expects_house
           => \/ strip(probe.loc.raw.address.house_number) # <<>>
              \/ lower(probe.loc.raw.type) \in {<<"h","o","u","s","e">>,
                                                <<"b","u","i","l","d","i","n","g">>,
                                                <<"r","e","s","i","d","e","n","t","i","a","l">>}

\* C16, as stated: the address check rejects a response only if neither its
\* city nor its state matches; a response that passes the other checks and
\* has a matching city or a matching state is accepted
C16_RejectsOnlyIfNeitherMatches ==
    (/\ NominatimJudged /\ other_checks_pass
     /\ matches_city(probe.loc.raw.address) \/ matches_state(probe.loc.raw.address))
        => probe.valid
\* C16, as the code has it: the address check rejects a response unless both
\* its city and its state match; a response whose city matches and whose
\* state does not, or the reverse, is rejected
C16_RejectsUnlessBothMatch ==
    NominatimJudged
        => /\ ~(/\ matches_city(probe.loc.raw.address)
                /\ matches_state(probe.loc.raw.address)) => ~probe.valid
           /\ (/\ other_checks_pass
               /\ matches_city(probe.loc.raw.address)
               /\ matches_state(probe.loc.raw.address)) => probe.valid
\* rejected: a house of the expected city inside the bounding box, in Brazil,
\* whose state is another one
C16_Witness ==
    /\ NominatimJudged /\ ~probe.valid /\ other_checks_pass
    /\ matches_city(probe.loc.raw.address)
    /\ ~matches_state(probe.loc.raw.address)
    /\ probe.loc.raw.address.state_code = <<"M","G">>

\* C17: with expects_house, is_valid_nominatim accepts a response only if it
\* has a house_number that is not empty or its type is house, building or
\* residential; the verdict of is_valid_arcgis on a response is the same
\* with expects_house and without
C17_HousePrecision ==
    /\ (NominatimJudged /\ probe.expects_house /\ probe.valid)
           => \/ probe.loc.raw.address.house_number # <<>>
              \/ probe.loc.raw.type \in {<<"h","o","u","s","e">>,
                                         <<"b","u","i","l","d","i","n","g">>,
                                         <<"r","e","s","i","d","e","n","t","i","a","l">>}
    /\ ArcgisJudged
           => probe.valid = is_valid_arcgis(probe.loc, city_arg, uf_arg, probe.bbox,
                                            ~probe.expects_house)
\* rejected for its precision only: a street of the expected city and state
\* inside the bounding box, without a house number
C17_Witness ==
    /\ NominatimJudged /\ probe.expects_house /\ ~probe.valid
    /\ probe.loc = nominatim_loc(<<"h","i","g","h","w","a","y">>,
                                 <<"t","e","r","t","i","a","r","y">>, <<"b","r">>,
                                 SaoCarlos, <<>>, <<"S","P">>, SaoPaulo, <<>>, FarPoint)
    /\ is_valid_nominatim(probe.loc, city_arg, uf_arg, probe.bbox, FALSE)

\* C18: build_candidates returns at least one candidate for a raw address
\* that is not empty, so a provider is called for every address the loop
\* has processed
C18_CandidatesNonEmpty ==
    /\ (pc \in {"nominatim", "arcgis", "record"} /\ pend[i + 1] # <<>>) => cands # <<>>
    /\ AddressRecorded => pend[i] \in called_for

\* C19: between two outbound calls to the same provider, the bounding-box
\* request included, at least the minimum delay of the provider passes
C19_MinDelayBetweenCalls ==
    \A a, b \in 1..Len(sent) :
        (a < b /\ sent[a][1] = sent[b][1])
            => sent[b][2] - sent[a][2] >= min_delay_seconds[sent[a][1]]

\* the run is right after a periodic checkpoint, or after its last flush
AtFlush == (pc = "loop" /\ i > 0 /\ is_checkpoint(i)) \/ pc \in {"save", "json"}
\* the positions in pend of the addresses recorded as unresolved in this run
\* (after the loop novos is part of geocache)
failed_so_far ==
    LET rows == IF pc = "loop" THEN recorded ELSE geocache
    IN  {j \in 1..i : has_empty_pair(rows[Len(rows) - i + j])}

\* C20: after each periodic checkpoint and at the end of the run, the failure
\* log on disk has one row, with its reason and candidates, for every
\* address that failed so far in the run
C20_FailureLogOnCheckpoint ==
    AtFlush
        => \A j \in failed_so_far :
               LET rows == SelectSeq(fail_file.rows, LAMBDA r : r.query = pend[j])
               IN  /\ fail_file.exists
                   /\ Len(rows) = 1
                   /\ rows[1] \in elements(fail_rows)
                   /\ rows[1].reason = "no_valid_hit"
\* the log holds two failures after a checkpoint, with an address still
\* to process
C20_Witness ==
    /\ pc = "loop" /\ i > 0 /\ is_checkpoint(i) /\ i < Len(pend)
    /\ Cardinality(failed_so_far) = 2
    /\ fail_file.rows = fail_rows

Built == parsed.stage = "built"
\* x is an 8-digit postal code, with or without a dash before the last 3 digits
is_postal_code(x) ==
    \/ Len(x) = 8 /\ \A n \in 1..8 : x[n] \in Digits
    \/ /\ Len(x) = 9 /\ x[6] = "-"
       /\ \A n \in (1..5) \cup (7..9) : x[n] \in Digits
\* the postal code of t that begins at a, when it follows a CEP marker
code_after_marker(t, a) ==
    LET len == IF char_in(t, a + 5, {"-"}) THEN 9 ELSE 8
        x == IF a + len - 1 <= Len(t) THEN SubSeq(t, a, a + len - 1) ELSE <<>>
        marked == \E p \in 1..(a - 3) :
                      /\ SubSeq(t, p, p + 2) = <<"C", "E", "P">>
                      /\ \A n \in (p + 3)..(a - 1) : t[n] \in Ws
    IN  IF is_postal_code(x) /\ marked THEN x ELSE <<>>
\* where the postal codes that follow a CEP marker begin in t
marked_codes(t) == {a \in 1..Len(t) : code_after_marker(t, a) # <<>>}
first_marked_code(t) ==
    code_after_marker(t, CHOOSE a \in marked_codes(t) : \A b \in marked_codes(t) : a <= b)
ExampleWithCep ==
    <<"R","U","A"," ","A",","," ","1","2","3"," ","-"," ","C","E","P"," ",
      "1","3","5","6","5","-","0","0","0">>

\* C22: normalize_for_geocode returns the first 8-digit postal code that
\* follows a CEP marker, with or without the dash, as the postal code and
\* takes it out of the base, so the base has one marked code less than the
\* address; "RUA A, 123 - CEP 13565-000" gives the base "RUA A, 123" and the
\* postal code "13565-000"
C22_PostalCodeExtracted ==
    Built =>
        LET u == upper(parsed.endereco_raw)
        IN  /\ marked_codes(u) # {} =>
                  /\ parsed.meta.cep = first_marked_code(u)
                  /\ Cardinality(marked_codes(parsed.meta.base))
                         = Cardinality(marked_codes(u)) - 1
            /\ marked_codes(u) = {} => parsed.meta.cep = None
            /\ parsed.endereco_raw = ExampleWithCep =>
                  /\ parsed.meta.base = <<"R","U","A"," ","A",",", " ","1","2","3">>
                  /\ parsed.meta.cep = <<"1","3","5","6","5","-","0","0","0">>
C22_Witness ==
    /\ Built /\ parsed.endereco_raw = ExampleWithCep
    /\ parsed.meta.cep = <<"1","3","5","6","5","-","0","0","0">>

\* ------------------------------------------------------------------------
\* Properties of the output of a run
\* ------------------------------------------------------------------------
\* both coordinates of the row are numbers
is_resolved(row) == row.latitude.t = "num" /\ row.longitude.t = "num"
\* the row has no coordinate at all
is_unresolved(row) == row.latitude.t # "num" /\ row.longitude.t # "num"
\* the coordinates of the row are those of a row of the cache for its address
is_cached(row, cache) ==
    \E c \in 1..Len(cache) :
        /\ cache[c].query = row.query
        /\ cache[c].latitude = row.latitude /\ cache[c].longitude = row.longitude
\* a coordinate of a feature: the number, or null
number_or_null(cell) == IF cell.t = "num" THEN cell ELSE EmptyCell
\* the features that the JSON has to hold for the output table
features_expected(table, with_missing) ==
    LET wanted == {j \in 1..Len(table) : with_missing \/ is_resolved(table[j])}
        nth(n) == CHOOSE j \in wanted : Cardinality({m \in wanted : m < j}) = n - 1
    IN  [n \in 1..Cardinality(wanted) |->
            [endereco |-> table[nth(n)].query,
             latitude |-> number_or_null(table[nth(n)].latitude),
             longitude |-> number_or_null(table[nth(n)].longitude)]]

\* C23: when main writes the JSON, every row of the input table carries
\* either the numeric pair that the cache holds for its address or no
\* coordinate at all; the JSON leaves the rows without coordinates out unless
\* --keep-missing is given, and then shows them with null coordinates; and
\* count_output is the number of features written
C23_ResolvedOrMarkedUnresolved ==
    [][\A with_missing \in BOOLEAN :
          WriteJson(with_missing) =>
              /\ Len(df_geo) = Len(df_base)
              /\ \A j \in 1..Len(df_geo) :
                    /\ df_geo[j].query = df_base[j].endereco
                    /\ \/ is_resolved(df_geo[j]) /\ is_cached(df_geo[j], geocache)
                       \/ is_unresolved(df_geo[j])
              /\ out_json'.rows = features_expected(df_geo, with_missing)
              /\ out_json'.count_output = Len(out_json'.rows)]_vars
\* a JSON written with --keep-missing: a feature with null coordinates and a
\* feature with numbers
C23_Witness ==
    /\ out_json.exists /\ pc = "idle"
    /\ out_json.count_output = Len(prev.output)
    /\ \E a, b \in 1..Len(out_json.rows) :
          /\ out_json.rows[a].latitude = EmptyCell
          /\ out_json.rows[b].latitude.t = "num"

\* the candidates of a normalised address in the order of their priority,
\* duplicates included
by_priority(n) ==
    LET sep == <<",", " ">>
        has_base == n.base # <<>>
        has_postal == n.cep # None /\ n.cep # <<>>
        street_and_number ==
            IF n.number = <<>> THEN n.street ELSE n.street \o sep \o n.number
        pick(wanted, q) == IF wanted THEN <<q>> ELSE <<>>
    IN  pick(has_base /\ has_postal,
             dict_query(n.base, n.cep, city_arg, uf_arg, country_arg))
        \o pick(has_base, dict_query(n.base, <<>>, city_arg, uf_arg, country_arg))
        \o pick(n.street # <<>>,
                dict_query(street_and_number, <<>>, city_arg, uf_arg, country_arg))
        \o pick(has_postal, dict_query(<<>>, n.cep, city_arg, uf_arg, country_arg))
        \o pick(has_base,
                str_query(n.base \o sep \o city_arg \o sep \o uf_arg \o sep \o country_arg))
\* where q is first met in the sequence qs
first_index(qs, q) == CHOOSE a \in 1..Len(qs) : qs[a] = q /\ \A b \in 1..(a - 1) : qs[b] # q

number_segment(t) ==
    LET commas == {a \in 1..Len(t) : t[a] = ","}
        first == CHOOSE a \in commas : \A b \in commas : a <= b
        later == {a \in commas : a > first}
        stop == IF later = {} THEN Len(t) + 1
                ELSE CHOOSE a \in later : \A b \in later : a <= b
    IN  IF commas = {} THEN <<>> ELSE strip(SubSeq(t, first + 1, stop - 1))
\* a house number, or the marker of an address without number
names_a_house(number) ==
    \/ number # <<>> /\ \A a \in 1..Len(number) : number[a] \in Digits
    \/ \E a \in 1..(Len(number) - 2) :
          SubSeq(number, a, a + 2) \in {<<"S", "/", "N">>, <<"S", "\\", "N">>}

\* C25: expects_house is true exactly when the number segment that follows
\* the street segment is purely numeric or contains S/N, whatever segments
\* (neighbourhood, municipality) follow it
C25_ExpectsHouseFromNumberSegment ==
    Built =>
        (parsed.meta.expects_house = names_a_house(number_segment(parsed.meta.base)))

\* ------------------------------------------------------------------------
\* Properties of the cache and of the batch loop
\* ------------------------------------------------------------------------
\* the text of a query shows that a precise point is expected: a house
\* number after a comma, the marker S/N or SN, or KM and a number
indicates_precision(q) ==
    LET u == upper(q)
        digit_from(a) ==
            \E b \in a..Len(u) : u[b] \in Digits /\ \A c \in a..(b - 1) : u[c] \in Ws
        ends_word(a) == a = Len(u) \/ u[a + 1] \notin WordChars
    IN  \E a \in 1..Len(u) :
            \/ u[a] = "," /\ digit_from(a + 1)
            \/ a + 2 <= Len(u) /\ SubSeq(u, a, a + 2) = <<"S", "/", "N">> /\ ends_word(a + 2)
            \/ a + 1 <= Len(u) /\ SubSeq(u, a, a + 1) = <<"S", "N">> /\ ends_word(a + 1)
            \/ a + 1 <= Len(u) /\ SubSeq(u, a, a + 1) = <<"K", "M">> /\ digit_from(a + 2)
\* the point lies within the radius of the centroid, when there is one
near_centroid(c, centroid) ==
    /\ ~centroid.none
    /\ c.latitude.v - centroid.lat < CentroidRadius
    /\ centroid.lat - c.latitude.v < CentroidRadius
    /\ c.longitude.v - centroid.lon < CentroidRadius
    /\ centroid.lon - c.longitude.v < CentroidRadius

\* C26: of the cache entries with numeric coordinates, the centroid-suspect
\* pass drops those within the radius of the city centroid whose query
\* indicates a precision expectation, and no other: every other one keeps
\* its coordinates and is not pending; without a centroid none is dropped
C26_DropsExactlyCentroidSuspects ==
    AtLoopStart =>
        \A q \in row_keys(geocache) :
            LET c == dict_zip(geocache)[q]
            IN  (c.latitude.t = "num" /\ c.longitude.t = "num") =>
                    IF near_centroid(c, city_centroid) /\ indicates_precision(q)
                    THEN q \notin DOMAIN cache_map
                    ELSE /\ q \in DOMAIN cache_map /\ cache_map[q] = c
                         /\ q \notin elements(pend)
\* a run that drops one cached entry and keeps another that is as near to
\* the centroid
C26_Witness ==
    /\ AtLoopStart /\ ~city_centroid.none
    /\ \E q1, q2 \in row_keys(geocache) :
          /\ dict_zip(geocache)[q1].latitude.t = "num" /\ q1 \notin DOMAIN cache_map
          /\ q2 \in DOMAIN cache_map /\ near_centroid(cache_map[q2], city_centroid)

\* C27: when the cache is saved, the coordinates of every row of the output
\* table are the coordinates that the cache file holds for the address of
\* the row
C27_OutputAgreesWithCacheFile ==
    pc = "json" =>
        \A j \in 1..Len(df_geo) :
            \A c \in 1..Len(cache_file.rows) :
                cache_file.rows[c].query = df_geo[j].query
                    => coordinates(cache_file.rows[c]) = coordinates(df_geo[j])

\* the cache rows recorded by this run for the addresses processed so far
new_rows == SubSeq(recorded, Len(recorded) - i + 1, Len(recorded))
\* the latitude or the longitude of the row is empty
lacks_coordinate(row) == row.latitude = EmptyCell \/ row.longitude = EmptyCell

\* C28: in the batch loop, when i pending addresses are processed,
\* ok + falhas = i, the cache has one new row for each of them and no
\* other, and an address has a failure row exactly when the latitude or the
\* longitude of its row is empty
C28_LoopInvariant ==
    InLoop =>
        /\ ok + falhas = i
        /\ Len(recorded) = Len(load_or_init_geocache(cache_file)) + i
        /\ \A j \in 1..i : new_rows[j].query = pend[j]
        /\ [j \in 1..Len(fail_rows) |-> fail_rows[j].query]
               = SelectSeq([j \in 1..i |-> pend[j]],
                           LAMBDA q : \E j \in 1..i :
                                          new_rows[j].query = q /\ lacks_coordinate(new_rows[j]))
\* two addresses are processed, one resolved and one failed
C28_Witness ==
    /\ pc = "loop" /\ i = 2 /\ ok = 1 /\ falhas = 1
    /\ \E j \in 1..2 : lacks_coordinate(new_rows[j])

\* the addresses that failed in the run that has just saved its cache: the
\* pending addresses whose row, one of the last rows of the cache, lacks a
\* coordinate
failed_in_run ==
    LET first == Len(geocache) - Len(pend)
    IN  {pend[j] : j \in {h \in 1..Len(pend) : lacks_coordinate(geocache[first + h])}}

\* C29: after a completed run the failure log has a row for an address
\* exactly when that address failed in this run; after a run without
\* failure it has no row
C29_FailureLogOfThisRunOnly ==
    pc = "json" =>
        {fail_file.rows[j].query : j \in 1..Len(fail_file.rows)} = failed_in_run

\* the street type of t is a complete known prefix word: t begins with a
\* word of _PREFIXES and a blank follows it
begins_with_complete_prefix(t) ==
    \E n \in 1..Len(_PREFIXES) :
        LET p == _PREFIXES[n]
        IN  /\ Len(t) > Len(p)
            /\ SubSeq(t, 1, Len(p)) = p
            /\ t[Len(p) + 1] = " "

\* C30: the loop over _PREFIXES leaves an address unchanged whose street
\* type is a complete known prefix word followed by a blank; it puts no
\* blank inside such a word
C30_CompletePrefixUnchanged ==
    (Built /\ begins_with_complete_prefix(parsed.t)) => parsed.split = parsed.t
====
